---- MODULE Spec2Model ----
(***************************************************************************)
(* eTuitionBd server (src/index.js): an Express application over four      *)
(* MongoDB collections (users, tuitions, applications, payments).          *)
(*                                                                         *)
(* Node runs the handlers on one event loop: the code between two awaits   *)
(* runs without interruption, and every awaited driver call (findOne,      *)
(* insertOne, updateOne, deleteOne, find, aggregate) is one atomic         *)
(* operation of the database.  An action of this model is therefore one    *)
(* driver call together with the synchronous code that follows it up to    *)
(* the next driver call; the synchronous code that precedes the first      *)
(* driver call of a request (verifyToken, parameter conversion) is part    *)
(* of the request's first action.  A request suspended between two driver *)
(* calls occupies a slot; the model keeps the most recent answer in last.  *)
(***************************************************************************)
EXTENDS Integers, FiniteSets, Sequences, TLC

VARIABLES
    users,          \* userCollection: a set of documents
    tuitions,       \* tuitionCollection
    applications,   \* applicationCollection
    payments,       \* paymentCollection
    nextId,         \* the next ObjectId each collection's insertOne generates
    reqs,           \* the requests suspended at an await, one per slot
    last            \* the most recent answer, with the request it answers

vars == <<users, tuitions, applications, payments, nextId, reqs, last>>

db == <<users, tuitions, applications, payments, nextId>>

(***************************************************************************)
(* Bounds of the model.                                                    *)
(***************************************************************************)
MaxUsers == 2
MaxTuitions == 2
MaxApplications == 2
MaxPayments == 2
MaxInflight == 2

Slots == 1..MaxInflight

(***************************************************************************)
(* Values of the requests.                                                 *)
(***************************************************************************)
Emails == {"ann@x", "bob@x", "eve@x"}
NoEmail == ""
Roles == {"student", "tutor", "admin"}
NoRole == "none"                    \* a user document without a role field
Profiles == {[name |-> "n1", photoURL |-> "p1"], [name |-> "n2", photoURL |-> "p2"]}

TuitionStatuses == {"pending", "approved", "rejected", "filled"}
NullStatus == "null"                \* status: undefined in a $set is stored as null
StatusInputs == TuitionStatuses \cup {"archived", NullStatus}
Subjects == {"math"}
Prices == {20, 35}
Transactions == {"tx1", "tx2"}
NoTransaction == ""

\* The Authorization header of a request: absent, a token that jwt.verify
\* refuses, or a token signed by POST /jwt for a payload with this email.
NoHeader == [kind |-> "absent", email |-> NoEmail]
BadToken == [kind |-> "invalid", email |-> NoEmail]
Token(e) == [kind |-> "valid", email |-> e]
Creds == {NoHeader, BadToken} \cup {Token(e) : e \in Emails}

\* An identifier as a request carries it: the 24 hex digits of ObjectId n in
\* lower or upper case, a string that is no ObjectId, or no value at all.
Hex(n, up) == [kind |-> "hex", n |-> n, upper |-> up]
Garbage == [kind |-> "garbage", n |-> 0, upper |-> FALSE]
Absent == [kind |-> "absent", n |-> 0, upper |-> FALSE]
HexInputs(max) == {Hex(n, up) : n \in 1..max, up \in BOOLEAN}
LowerHex(max) == {Hex(n, FALSE) : n \in 1..max}

\* new ObjectId(input): ObjectId n for either spelling, 0 (a throw) otherwise.
Invalid == 0
ObjectId(input) == IF input.kind = "hex" THEN input.n ELSE Invalid

\* !value of JavaScript for an identifier or a transaction of the body.
Falsy(input) == input.kind = "absent"

(***************************************************************************)
(* Documents and the driver's operations.                                  *)
(***************************************************************************)
NoDoc == [_id |-> 0]
Found(d) == d._id # 0

\* The document findOne and updateOne pick among those matching a filter:
\* the first in insertion order, or null.
First(matching) ==
    IF matching = {} THEN NoDoc
    ELSE CHOOSE d \in matching : \A e \in matching : d._id <= e._id

\* findOne({ _id: id })
ById(coll, id) == First({d \in coll : d._id = id})

\* $set: the fields of upd replace or extend those of doc.
SetFields(doc, upd) ==
    [f \in DOMAIN doc \cup DOMAIN upd |->
        IF f \in DOMAIN upd THEN upd[f] ELSE doc[f]]

\* updateOne(filter, {$set: upd}), doc being the first match of the filter.
UpdateDoc(coll, doc, upd) ==
    IF Found(doc) THEN (coll \ {doc}) \cup {SetFields(doc, upd)} ELSE coll

\* deleteOne({ _id: id })
DeleteOne(coll, id) == {d \in coll : d._id # id}

\* matchedCount, deletedCount
Count(doc) == IF Found(doc) THEN 1 ELSE 0

(***************************************************************************)
(* Requests and responses.                                                 *)
(***************************************************************************)
Idle == [route |-> "idle", pc |-> "idle"]
None == [none |-> TRUE]

\* A response body: a message, documents, an insert result (id 0 is the
\* null insertedId of the soft duplicate answer) or an update/delete result.
Message(m) == [kind |-> "message", msg |-> m, docs |-> {}, n |-> 0]
Documents(S) == [kind |-> "documents", msg |-> "", docs |-> S, n |-> 0]
InsertResult(id) == [kind |-> "insertResult", msg |-> "", docs |-> {}, n |-> id]
NullInsert(m) == [kind |-> "insertResult", msg |-> m, docs |-> {}, n |-> 0]
WriteResult(k) == [kind |-> "writeResult", msg |-> "", docs |-> {}, n |-> k]

\* A request suspended at an await: route, decoded email, path parameters,
\* body, and the handler's local variables (records, all three).
Pending(route, pc, email, param, body, loc) ==
    [route |-> route, pc |-> pc, email |-> email, param |-> param,
     body |-> body, loc |-> loc]

\* An answer: the request (route, decoded email, path parameters, body),
\* the HTTP status and the body sent.
Answered(route, email, param, body, status, resp) ==
    [route |-> route, pc |-> "done", email |-> email, param |-> param,
     body |-> body, status |-> status, resp |-> resp]

NoAnswer == [route |-> "none", pc |-> "done", status |-> 0]

\* The slot a request that arrives is given: the first free one.
IsIdle(s) == reqs[s].pc = "idle" /\ \A t \in 1..(s - 1) : reqs[t].pc # "idle"
At(s, route, pc) == reqs[s].route = route /\ reqs[s].pc = pc

\* res.send in a handler that never suspends.
Answer(r) == last' = r /\ UNCHANGED reqs

\* The outcome of a step of the request in slot s: r is its answer, which
\* frees the slot, or the request suspended at its next await.
Reply(s, r) ==
    IF r.pc = "done"
    THEN reqs' = [reqs EXCEPT ![s] = Idle] /\ last' = r
    ELSE reqs' = [reqs EXCEPT ![s] = r] /\ UNCHANGED last

\* The request in slot s moves on to its next await.
Goto(s, pc) == reqs' = [reqs EXCEPT ![s].pc = pc] /\ UNCHANGED last

\* The answer of a request that was suspended.
Handled(s, status, resp) ==
    Reply(s, Answered(reqs[s].route, reqs[s].email, reqs[s].param, reqs[s].body,
                      status, resp))

(***************************************************************************)
(* Middlewares.                                                            *)
(***************************************************************************)
\* (mutant) verifyToken passing every request that has a header.
VerifyTokenAnyHeader(cred) == cred.kind # "absent"

\* verifyToken: 401 without a header or with a token jwt.verify refuses.
VerifyToken(cred) == cred.kind = "valid"

Unauthorized(route, param, body) ==
    Answered(route, NoEmail, param, body, 401, Message("unauthorized access"))

\* user?.role of verifyAdmin's findOne({ email }).
StoredRole(email) ==
    LET user == First({d \in users : d.email = email})
    IN IF Found(user) THEN user.role ELSE NoRole

\* (mutant) verifyAdmin refusing students only.
IsAdminNotStudent(email) == StoredRole(email) # "student"

\* (mutant) the role the caller had when the token was signed: of the
\* users every specification starts with, ann is the admin.
IsAdminAtLogin(email) == email = "ann@x"

\* verifyAdmin passes the request on exactly for a stored role of "admin".
IsAdmin(email) == StoredRole(email) = "admin"

Forbidden(route, email, param, body) ==
    Answered(route, email, param, body, 403, Message("forbidden access"))

\* The first action of a route behind verifyToken and verifyAdmin: the
\* request is answered 401 or 403, or suspended before its handler.
AdminGate(s, route, cred, param, body) ==
    /\ IsIdle(s)
    /\ Reply(s, IF ~VerifyToken(cred) THEN Unauthorized(route, param, body)
                ELSE IF ~IsAdmin(cred.email)
                     THEN Forbidden(route, cred.email, param, body)
                     ELSE Pending(route, "handler", cred.email, param, body, None))
    /\ UNCHANGED db

\* (mutant) the identity test passing every path email.
NotSelfNever(decoded, pathEmail) == FALSE

\* The test of a self-only route: req.decoded.email !== req.params.email
NotSelf(decoded, pathEmail) == decoded # pathEmail


(***************************************************************************)
(* Insertion.  The model's collections are bounded: a request that will    *)
(* insert is admitted only while an identifier is left for it.             *)
(***************************************************************************)
Inserting(route) == Cardinality({s \in Slots : At(s, route, "insert")})

Room(coll, route, max) == nextId[coll] + Inserting(route) <= max

Bump(coll) == nextId' = [nextId EXCEPT ![coll] = @ + 1]

(***************************************************************************)
(* AUTH & USERS                                                            *)
(***************************************************************************)
UserBodies ==
    {[email |-> e, role |-> r, name |-> p.name, photoURL |-> p.photoURL] :
        e \in Emails, r \in Roles \cup {NoRole}, p \in Profiles}

\* POST /users, up to the answer of findOne({ email: user.email }).
PostUsersFind(s, user) ==
    /\ IsIdle(s)
    /\ Room("users", "POST /users", MaxUsers)
    /\ LET existingUser == First({d \in users : d.email = user.email})
       IN Reply(s, IF Found(existingUser)
                   THEN Answered("POST /users", NoEmail, None, user, 200,
                                 NullInsert("user already exists"))
                   ELSE Pending("POST /users", "insert", NoEmail, None, user, None))
    /\ UNCHANGED db

\* POST /users, insertOne(user).
PostUsersInsert(s) ==
    /\ At(s, "POST /users", "insert")
    /\ users' = users \cup {SetFields(reqs[s].body, [_id |-> nextId.users])}
    /\ Bump("users")
    /\ Reply(s, Answered("POST /users", NoEmail, None, reqs[s].body, 200,
                         InsertResult(nextId.users)))
    /\ UNCHANGED <<tuitions, applications, payments>>

\* GET /users/:email: the stored user, or { role: "student" } without one.
GetUsersEmail(cred, email) ==
    LET route == "GET /users/:email"
        param == [email |-> email]
        result == First({d \in users : d.email = email})
    IN /\ Answer(IF ~VerifyToken(cred) THEN Unauthorized(route, param, None)
                   ELSE Answered(route, cred.email, param, None, 200,
                                 Documents({IF Found(result) THEN result
                                            ELSE [role |-> "student"]})))
       /\ UNCHANGED db

\* PATCH /users/update/:email
PatchUsersUpdate(cred, email, profile) ==
    LET route == "PATCH /users/update/:email"
        param == [email |-> email]
        doc == First({d \in users : d.email = email})
    IN /\ IF ~VerifyToken(cred)
          THEN Answer(Unauthorized(route, param, profile)) /\ UNCHANGED db
          ELSE IF NotSelf(cred.email, email)
          THEN Answer(Answered(route, cred.email, param, profile, 403,
                                 Message("forbidden")))
               /\ UNCHANGED db
          ELSE /\ users' = UpdateDoc(users, doc, profile)
               /\ Answer(Answered(route, cred.email, param, profile, 200,
                                    WriteResult(Count(doc))))
               /\ UNCHANGED <<tuitions, applications, payments, nextId>>

(***************************************************************************)
(* Self-only reads.  The order of the documents in an answer (sort) is     *)
(* not modelled: an answer holds a set.                                    *)
(***************************************************************************)
\* $lookup of the tuition an application references, as tuitionData.
Joined(a) == SetFields(a, [tuitionData |-> ById(tuitions, a.tuitionId)])

MyTuitions(email) == {t \in tuitions : t.studentEmail = email}

\* $lookup, $unwind (dropping applications whose tuition is gone), $match.
ApplicationsReceived(email) ==
    {Joined(a) : a \in {b \in applications :
        /\ Found(ById(tuitions, b.tuitionId))
        /\ ById(tuitions, b.tuitionId).studentEmail = email}}

\* $match, $lookup, $unwind with preserveNullAndEmptyArrays.
ApplicationsOfTutor(email) ==
    {Joined(a) : a \in {b \in applications : b.tutorEmail = email}}

MyPayments(email) == {p \in payments : p.email = email}

TutorPayments(email) == {p \in payments : p.tutorEmail = email}

SelfOnlyReads ==
    {"GET /my-tuitions/:email", "GET /applications/received/:email",
     "GET /applications/tutor/:email", "GET /payments/my-history/:email",
     "GET /payments/tutor-history/:email"}

ReadFor(route, email) ==
    CASE route = "GET /my-tuitions/:email" -> MyTuitions(email)
      [] route = "GET /applications/received/:email" -> ApplicationsReceived(email)
      [] route = "GET /applications/tutor/:email" -> ApplicationsOfTutor(email)
      [] route = "GET /payments/my-history/:email" -> MyPayments(email)
      [] route = "GET /payments/tutor-history/:email" -> TutorPayments(email)

\* The five GET routes with a path email: verifyToken, the identity test,
\* one find or aggregate.
SelfOnlyGet(route, cred, email) ==
    LET param == [email |-> email]
    IN /\ Answer(IF ~VerifyToken(cred) THEN Unauthorized(route, param, None)
                   ELSE IF NotSelf(cred.email, email)
                   THEN Answered(route, cred.email, param, None, 403,
                                 Message("forbidden"))
                   ELSE Answered(route, cred.email, param, None, 200,
                                 Documents(ReadFor(route, email))))
       /\ UNCHANGED db

GetMyTuitions(cred, email) ==
    SelfOnlyGet("GET /my-tuitions/:email", cred, email)

GetApplicationsReceived(cred, email) ==
    SelfOnlyGet("GET /applications/received/:email", cred, email)

GetApplicationsTutor(cred, email) ==
    SelfOnlyGet("GET /applications/tutor/:email", cred, email)

GetPaymentsMyHistory(cred, email) ==
    SelfOnlyGet("GET /payments/my-history/:email", cred, email)

GetPaymentsTutorHistory(cred, email) ==
    SelfOnlyGet("GET /payments/tutor-history/:email", cred, email)

(***************************************************************************)
(* PUBLIC ROUTES                                                           *)
(***************************************************************************)
\* GET /tuitions: find({ status: "approved" }); the handler does not read
\* req.query, so the search term of the request has no part in the answer.
GetTuitions(search) ==
    /\ Answer(Answered("GET /tuitions", NoEmail, [search |-> search], None, 200,
                        Documents({t \in tuitions : t.status = "approved"})))
    /\ UNCHANGED db

(***************************************************************************)
(* STUDENT DASHBOARD ROUTES                                                *)
(***************************************************************************)
\* POST /tuitions: the body's status is overwritten before insertOne.
\* (createdAt, like every timestamp of the code, is not modelled.)
PostTuitions(cred, item) ==
    LET route == "POST /tuitions"
        doc == SetFields(item, [_id |-> nextId.tuitions, status |-> "pending",
                                hiredTutorEmail |-> NoEmail])
    IN /\ IF ~VerifyToken(cred)
          THEN Answer(Unauthorized(route, None, item)) /\ UNCHANGED db
          ELSE /\ nextId.tuitions <= MaxTuitions
               /\ tuitions' = tuitions \cup {doc}
               /\ Bump("tuitions")
               /\ Answer(Answered(route, cred.email, None, item, 200,
                                    InsertResult(nextId.tuitions)))
               /\ UNCHANGED <<users, applications, payments>>

\* PATCH /tuitions/update/:id: { $set: req.body } on the document of that id.
PatchTuitionsUpdate(cred, id, upd) ==
    LET route == "PATCH /tuitions/update/:id"
        param == [id |-> id]
        doc == ById(tuitions, ObjectId(id))
    IN /\ IF ~VerifyToken(cred)
          THEN Answer(Unauthorized(route, param, upd)) /\ UNCHANGED db
          ELSE /\ tuitions' = UpdateDoc(tuitions, doc, upd)
               /\ Answer(Answered(route, cred.email, param, upd, 200,
                                    WriteResult(Count(doc))))
               /\ UNCHANGED <<users, applications, payments, nextId>>

\* DELETE /tuitions/:id
DeleteTuitions(cred, id) ==
    LET route == "DELETE /tuitions/:id"
        param == [id |-> id]
    IN /\ IF ~VerifyToken(cred)
          THEN Answer(Unauthorized(route, param, None)) /\ UNCHANGED db
          ELSE /\ tuitions' = DeleteOne(tuitions, ObjectId(id))
               /\ Answer(Answered(route, cred.email, param, None, 200,
                                    WriteResult(Count(ById(tuitions, ObjectId(id))))))
               /\ UNCHANGED <<users, applications, payments, nextId>>

(***************************************************************************)
(* TUTOR DASHBOARD ROUTES                                                  *)
(***************************************************************************)
\* (mutant) the duplicate check left out.
ExistingApplicationNone(tuitionId, tutorEmail) == NoDoc

\* findOne({ tuitionId: application.tuitionId, tutorEmail: application.tutorEmail })
ExistingApplication(tuitionId, tutorEmail) ==
    First({a \in applications :
            a.tuitionId = tuitionId /\ a.tutorEmail = tutorEmail})

\* (mutant) the status of the body kept when the body has one.
NewApplicationAsSent(body, tuitionId) ==
    SetFields([status |-> "pending"], SetFields(body, [tuitionId |-> tuitionId]))

\* const application = req.body; application.status = "pending";
\* application.tuitionId = new ObjectId(application.tuitionId)
NewApplication(body, tuitionId) ==
    SetFields(body, [tuitionId |-> tuitionId, status |-> "pending"])

\* POST /applications, up to the answer of findOne({ tuitionId, tutorEmail }):
\* the status is overwritten, the tuitionId converted (400 when new ObjectId
\* throws), the duplicate answered with a null insertedId.
PostApplicationsFind(s, cred, body) ==
    LET route == "POST /applications"
        tuitionId == ObjectId(body.tuitionId)
        application == NewApplication(body, tuitionId)
        exists == ExistingApplication(tuitionId, body.tutorEmail)
    IN /\ IsIdle(s)
       /\ Room("applications", route, MaxApplications)
       /\ Reply(s, IF ~VerifyToken(cred) THEN Unauthorized(route, None, body)
                   ELSE IF tuitionId = Invalid
                   THEN Answered(route, cred.email, None, body, 400,
                                 Message("Invalid tuitionId format"))
                   ELSE IF Found(exists)
                   THEN Answered(route, cred.email, None, body, 200,
                                 NullInsert("Already applied"))
                   ELSE Pending(route, "insert", cred.email, None, body,
                                application))
       /\ UNCHANGED db

\* POST /applications, insertOne(application).
PostApplicationsInsert(s) ==
    /\ At(s, "POST /applications", "insert")
    /\ applications' = applications \cup
            {SetFields(reqs[s].loc, [_id |-> nextId.applications])}
    /\ Bump("applications")
    /\ Handled(s, 200, InsertResult(nextId.applications))
    /\ UNCHANGED <<users, tuitions, payments>>

\* DELETE /applications/:id
DeleteApplications(cred, id) ==
    LET route == "DELETE /applications/:id"
        param == [id |-> id]
    IN /\ IF ~VerifyToken(cred)
          THEN Answer(Unauthorized(route, param, None)) /\ UNCHANGED db
          ELSE /\ applications' = DeleteOne(applications, ObjectId(id))
               /\ Answer(Answered(route, cred.email, param, None, 200,
                            WriteResult(Count(ById(applications, ObjectId(id))))))
               /\ UNCHANGED <<users, tuitions, payments, nextId>>

\* PATCH /applications/reject/:id
PatchApplicationsReject(cred, id) ==
    LET route == "PATCH /applications/reject/:id"
        param == [id |-> id]
        doc == ById(applications, ObjectId(id))
    IN /\ IF ~VerifyToken(cred)
          THEN Answer(Unauthorized(route, param, None)) /\ UNCHANGED db
          ELSE /\ applications' = UpdateDoc(applications, doc,
                                            [status |-> "rejected"])
               /\ Answer(Answered(route, cred.email, param, None, 200,
                                    WriteResult(Count(doc))))
               /\ UNCHANGED <<users, tuitions, payments, nextId>>

(***************************************************************************)
(* PAYMENT ROUTES                                                          *)
(***************************************************************************)
\* A JSON number of a body, sign * digit * 10^exp with one significant
\* digit (sign 0 is zero), or no value.
Num(sign, digit, exp) ==
    [kind |-> "number", sign |-> sign, digit |-> digit, exp |-> exp]
NoPrice == [kind |-> "absent", sign |-> 0, digit |-> 0, exp |-> 0]

\* !price || price <= 0
InvalidPrice(price) == price.kind = "absent" \/ price.sign <= 0

\* price * 100
Times100(x) == IF x.sign = 0 THEN x ELSE [x EXCEPT !.exp = @ + 2]

\* Number.prototype.toString writes a number of 10^21 or more in exponent
\* notation ("1e+21").
ExponentNotation == 21

\* parseInt(x) for an integer x: parseInt converts x to a string and reads
\* its leading digits, which are all of x in decimal notation and the digit
\* before the "e" in exponent notation.
ParseInt(x) == IF x.exp >= ExponentNotation THEN [x EXCEPT !.exp = 0] ELSE x

\* The call stripe.paymentIntents.create({ amount, ... }) that was answered.
Intent(amount) ==
    [kind |-> "intent", msg |-> "", docs |-> {[amount |-> amount]}, n |-> 0]

\* POST /create-payment-intent, up to the call of the payment processor.
PostCreatePaymentIntent(s, cred, body) ==
    LET route == "POST /create-payment-intent"
        amount == ParseInt(Times100(body.price))
    IN /\ IsIdle(s)
       /\ Reply(s, IF ~VerifyToken(cred) THEN Unauthorized(route, None, body)
                   ELSE IF InvalidPrice(body.price)
                   THEN Answered(route, cred.email, None, body, 400,
                                 Message("Valid price is required"))
                   ELSE Pending(route, "create", cred.email, None, body,
                                [amount |-> amount]))
       /\ UNCHANGED db

\* POST /create-payment-intent, the answer of the payment processor: the
\* intent (ok) or an error, which the handler's catch answers with 500.
PostCreatePaymentIntentCreate(s, ok) ==
    /\ At(s, "POST /create-payment-intent", "create")
    /\ Handled(s, IF ok THEN 200 ELSE 500,
                  IF ok THEN Intent(reqs[s].loc.amount) ELSE Message("error"))
    /\ UNCHANGED db

\* (mutant) the handler without its 404 answer.
NotFoundNever(application) == FALSE

\* if (!application)
NotFound(application) == ~Found(application)

\* POST /payments, up to the answer of findOne on the application, which the
\* handler keeps in its variable application: 400
\* without applicationId or transactionId, 500 when new ObjectId throws
\* (the handler's catch), 404 without the application.  (tutorName is
\* copied like tutorEmail and not modelled.)
PostPaymentsFind(s, cred, payment) ==
    LET route == "POST /payments"
        application == ById(applications, ObjectId(payment.applicationId))
    IN /\ IsIdle(s)
       /\ Room("payments", route, MaxPayments)
       /\ Reply(s, IF ~VerifyToken(cred) THEN Unauthorized(route, None, payment)
                   ELSE IF Falsy(payment.applicationId)
                           \/ payment.transactionId = NoTransaction
                   THEN Answered(route, cred.email, None, payment, 400,
                                 Message("Missing required payment information"))
                   ELSE IF ObjectId(payment.applicationId) = Invalid
                   THEN Answered(route, cred.email, None, payment, 500,
                                 Message("error"))
                   ELSE IF NotFound(application)
                   THEN Answered(route, cred.email, None, payment, 404,
                                 Message("Application not found"))
                   ELSE Pending(route, "insert", cred.email, None, payment,
                                [application |-> application]))
       /\ UNCHANGED db

\* (mutant) the three writes of POST /payments and its answer as one step.
PostPaymentsTransaction(s) ==
    LET payment == reqs[s].body
        application == ById(applications, ObjectId(payment.applicationId))
        tuition == ById(tuitions, ObjectId(payment.tuitionId))
    IN /\ At(s, "POST /payments", "insert")
       /\ payments' = payments \cup
            {SetFields(payment, [_id |-> nextId.payments,
                                 tutorEmail |-> reqs[s].loc.application.tutorEmail])}
       /\ Bump("payments")
       /\ applications' = UpdateDoc(applications, application,
                                    [status |-> "approved",
                                     paymentId |-> payment.transactionId])
       /\ tuitions' = UpdateDoc(tuitions, tuition,
                                [status |-> "filled",
                                 hiredTutorEmail |->
                                    reqs[s].loc.application.tutorEmail])
       /\ Handled(s, 200, Message("Payment successful and tutor hired!"))
       /\ UNCHANGED users

\* POST /payments, insertOne(payment) with the tutor's email added.
PostPaymentsInsert(s) ==
    /\ At(s, "POST /payments", "insert")
    /\ payments' = payments \cup
            {SetFields(reqs[s].body, [_id |-> nextId.payments,
                                      tutorEmail |-> reqs[s].loc.application.tutorEmail])}
    /\ Bump("payments")
    /\ Goto(s, "approve")
    /\ UNCHANGED <<users, tuitions, applications>>

\* (mutant) the updateOne of the application followed by an updateMany that
\* rejects the other pending applications of the same tuition.
PostPaymentsApproveRejectingRivals(s) ==
    LET payment == reqs[s].body
        doc == ById(applications, ObjectId(payment.applicationId))
        paid == SetFields(doc, [status |-> "approved",
                                paymentId |-> payment.transactionId])
        Rival(a) == /\ Found(doc)
                    /\ a._id # doc._id
                    /\ a.tuitionId = doc.tuitionId
                    /\ a.status = "pending"
    IN /\ At(s, "POST /payments", "approve")
       /\ applications' =
            {IF Found(doc) /\ a._id = doc._id THEN paid
             ELSE IF Rival(a) THEN SetFields(a, [status |-> "rejected"])
             ELSE a : a \in applications}
       /\ IF Falsy(payment.tuitionId)
          THEN Handled(s, 200, Message("Payment successful and tutor hired!"))
          ELSE IF ObjectId(payment.tuitionId) = Invalid
          THEN Handled(s, 500, Message("error"))
          ELSE Goto(s, "fill")
       /\ UNCHANGED <<users, tuitions, payments, nextId>>

\* POST /payments, the updateOne of the application; then the answer when
\* the body has no tuitionId, or 500 when new ObjectId(payment.tuitionId)
\* throws.
PostPaymentsApprove(s) ==
    LET payment == reqs[s].body
        doc == ById(applications, ObjectId(payment.applicationId))
    IN /\ At(s, "POST /payments", "approve")
       /\ applications' = UpdateDoc(applications, doc,
                                    [status |-> "approved",
                                     paymentId |-> payment.transactionId])
       /\ IF Falsy(payment.tuitionId)
          THEN Handled(s, 200, Message("Payment successful and tutor hired!"))
          ELSE IF ObjectId(payment.tuitionId) = Invalid
          THEN Handled(s, 500, Message("error"))
          ELSE Goto(s, "fill")
       /\ UNCHANGED <<users, tuitions, payments, nextId>>

\* POST /payments, the updateOne of the tuition the body names.
PostPaymentsFill(s) ==
    LET doc == ById(tuitions, ObjectId(reqs[s].body.tuitionId))
    IN /\ At(s, "POST /payments", "fill")
       /\ tuitions' = UpdateDoc(tuitions, doc,
                                [status |-> "filled",
                                 hiredTutorEmail |->
                                    reqs[s].loc.application.tutorEmail])
       /\ Handled(s, 200, Message("Payment successful and tutor hired!"))
       /\ UNCHANGED <<users, applications, payments, nextId>>

(***************************************************************************)
(* ADMIN ROUTES: verifyToken and verifyAdmin (one findOne), then the       *)
(* handler's own driver call.                                              *)
(***************************************************************************)
AdminRoutes ==
    {"GET /users", "PATCH /users/role/:id", "DELETE /users/:id",
     "GET /tuitions/admin/all", "PATCH /tuitions/status/:id", "GET /admin-stats"}

GetUsers(s, cred) == AdminGate(s, "GET /users", cred, None, None)

GetUsersHandler(s) ==
    /\ At(s, "GET /users", "handler")
    /\ Handled(s, 200, Documents(users))
    /\ UNCHANGED db

PatchUsersRole(s, cred, id, role) ==
    AdminGate(s, "PATCH /users/role/:id", cred, [id |-> id], [role |-> role])

PatchUsersRoleHandler(s) ==
    LET doc == ById(users, ObjectId(reqs[s].param.id))
    IN /\ At(s, "PATCH /users/role/:id", "handler")
       /\ users' = UpdateDoc(users, doc, [role |-> reqs[s].body.role])
       /\ Handled(s, 200, WriteResult(Count(doc)))
       /\ UNCHANGED <<tuitions, applications, payments, nextId>>

DeleteUsers(s, cred, id) ==
    AdminGate(s, "DELETE /users/:id", cred, [id |-> id], None)

DeleteUsersHandler(s) ==
    LET id == ObjectId(reqs[s].param.id)
    IN /\ At(s, "DELETE /users/:id", "handler")
       /\ users' = DeleteOne(users, id)
       /\ Handled(s, 200, WriteResult(Count(ById(users, id))))
       /\ UNCHANGED <<tuitions, applications, payments, nextId>>

GetTuitionsAdminAll(s, cred) ==
    AdminGate(s, "GET /tuitions/admin/all", cred, None, None)

GetTuitionsAdminAllHandler(s) ==
    /\ At(s, "GET /tuitions/admin/all", "handler")
    /\ Handled(s, 200, Documents(tuitions))
    /\ UNCHANGED db

PatchTuitionsStatus(s, cred, id, status) ==
    AdminGate(s, "PATCH /tuitions/status/:id", cred, [id |-> id],
              [status |-> status])

\* (mutant) the handler reading the caller's role again before its write.
PatchTuitionsStatusHandlerRechecked(s) ==
    LET doc == ById(tuitions, ObjectId(reqs[s].param.id))
    IN /\ At(s, "PATCH /tuitions/status/:id", "handler")
       /\ IF StoredRole(reqs[s].email) = "admin"
          THEN /\ tuitions' = UpdateDoc(tuitions, doc,
                                        [status |-> reqs[s].body.status])
               /\ Handled(s, 200, WriteResult(Count(doc)))
          ELSE /\ tuitions' = tuitions
               /\ Handled(s, 403, Message("forbidden access"))
       /\ UNCHANGED <<users, applications, payments, nextId>>

PatchTuitionsStatusHandler(s) ==
    LET doc == ById(tuitions, ObjectId(reqs[s].param.id))
    IN /\ At(s, "PATCH /tuitions/status/:id", "handler")
       /\ tuitions' = UpdateDoc(tuitions, doc, [status |-> reqs[s].body.status])
       /\ Handled(s, 200, WriteResult(Count(doc)))
       /\ UNCHANGED <<users, applications, payments, nextId>>

\* { $group: { _id: null, totalRevenue: { $sum: "$price" } } }
\* What $sum adds for a document: its price, nothing for a document without
\* one.
Summand(d) == IF "price" \in DOMAIN d THEN d.price ELSE 0

RECURSIVE SumPrice(_)
SumPrice(docs) ==
    IF docs = {} THEN 0
    ELSE LET d == CHOOSE x \in docs : TRUE
         IN Summand(d) + SumPrice(docs \ {d})

\* (mutant) the price of the first payment taken for the total.
RevenueOfFirst(docs) == IF docs = {} THEN 0 ELSE Summand(First(docs))

\* payments.length > 0 ? payments[0].totalRevenue : 0
Revenue(docs) == IF docs = {} THEN 0 ELSE SumPrice(docs)

GetAdminStats(s, cred) == AdminGate(s, "GET /admin-stats", cred, None, None)

\* GET /admin-stats: the three estimatedDocumentCount calls, one after the
\* other, each an await.
GetAdminStatsCount(s) ==
    /\ reqs[s].route = "GET /admin-stats"
    /\ reqs[s].pc \in {"handler", "tuitions", "applications"}
    /\ reqs' = [reqs EXCEPT ![s] =
         CASE reqs[s].pc = "handler" ->
                [@ EXCEPT !.pc = "tuitions",
                          !.loc = [users |-> Cardinality(users)]]
           [] reqs[s].pc = "tuitions" ->
                [@ EXCEPT !.pc = "applications",
                          !.loc = SetFields(@, [tuitions |-> Cardinality(tuitions)])]
           [] reqs[s].pc = "applications" ->
                [@ EXCEPT !.pc = "aggregate",
                          !.loc = SetFields(@, [applications |->
                                                   Cardinality(applications)])]]
    /\ UNCHANGED <<db, last>>

\* GET /admin-stats: the aggregate over payments, and the answer.
GetAdminStatsAggregate(s) ==
    /\ At(s, "GET /admin-stats", "aggregate")
    /\ Handled(s, 200, Documents({SetFields(reqs[s].loc,
                                            [revenue |-> Revenue(payments)])}))
    /\ UNCHANGED db

(***************************************************************************)
(* Initial states.  The server starts on whatever the database holds.      *)
(* Empty is the state of a fresh deployment; Hired is the state after one  *)
(* student (bob) posted a tuition, one tutor (eve) applied and the payment *)
(* for that application was saved: POST /tuitions, POST /applications and  *)
(* POST /payments, none of which reads the users collection.               *)
(***************************************************************************)
AllIdle == [s \in Slots |-> Idle]
FirstLogin == [name |-> "n1", photoURL |-> "p1"]

Empty ==
    /\ users = {}
    /\ tuitions = {}
    /\ applications = {}
    /\ payments = {}
    /\ nextId = [users |-> 1, tuitions |-> 1, applications |-> 1, payments |-> 1]
    /\ reqs = AllIdle
    /\ last = NoAnswer

Hired ==
    /\ users = {}
    /\ tuitions = {[_id |-> 1, studentEmail |-> "bob@x", subject |-> "math",
                    status |-> "filled", hiredTutorEmail |-> "eve@x"]}
    /\ applications = {[_id |-> 1, tuitionId |-> 1, tutorEmail |-> "eve@x",
                        status |-> "approved", paymentId |-> "tx1"]}
    /\ payments = {[_id |-> 1, applicationId |-> Hex(1, FALSE),
                    tuitionId |-> Hex(1, FALSE), transactionId |-> "tx1",
                    email |-> "bob@x", price |-> 20, tutorEmail |-> "eve@x"]}
    /\ nextId = [users |-> 1, tuitions |-> 2, applications |-> 2, payments |-> 2]
    /\ reqs = AllIdle
    /\ last = NoAnswer

\* Staffed: Hired, after POST /users for ann (an admin) and bob (a student).
Staffed ==
    /\ users = {SetFields(FirstLogin, [_id |-> 1, email |-> "ann@x", role |-> "admin"]),
                SetFields(FirstLogin, [_id |-> 2, email |-> "bob@x", role |-> "student"])}
    /\ tuitions = {[_id |-> 1, studentEmail |-> "bob@x", subject |-> "math",
                    status |-> "filled", hiredTutorEmail |-> "eve@x"]}
    /\ applications = {[_id |-> 1, tuitionId |-> 1, tutorEmail |-> "eve@x",
                        status |-> "approved", paymentId |-> "tx1"]}
    /\ payments = {[_id |-> 1, applicationId |-> Hex(1, FALSE),
                    tuitionId |-> Hex(1, FALSE), transactionId |-> "tx1",
                    email |-> "bob@x", price |-> 20, tutorEmail |-> "eve@x"]}
    /\ nextId = [users |-> 3, tuitions |-> 2, applications |-> 2, payments |-> 2]
    /\ reqs = AllIdle
    /\ last = NoAnswer

\* Open: after POST /users for ann (an admin) and bob (a student), bob's
\* POST /tuitions and ann's PATCH /tuitions/status/:id to approved.
Open ==
    /\ users = {SetFields(FirstLogin, [_id |-> 1, email |-> "ann@x", role |-> "admin"]),
                SetFields(FirstLogin, [_id |-> 2, email |-> "bob@x", role |-> "student"])}
    /\ tuitions = {[_id |-> 1, studentEmail |-> "bob@x", subject |-> "math",
                    status |-> "approved", hiredTutorEmail |-> NoEmail]}
    /\ applications = {}
    /\ payments = {}
    /\ nextId = [users |-> 3, tuitions |-> 2, applications |-> 1, payments |-> 1]
    /\ reqs = AllIdle
    /\ last = NoAnswer

Init == Empty

(***************************************************************************)
(* SpecAdmin: the six admin routes, from Staffed, one request at a time.   *)
(***************************************************************************)
\* Clients that wait for the answer of a request before sending the next.
Quiet == \A s \in Slots : reqs[s].pc = "idle"

NextAdmin ==
    \E s \in Slots :
        \/ \E cred \in Creds : Quiet /\ GetUsers(s, cred)
        \/ \E cred \in Creds : Quiet /\ GetTuitionsAdminAll(s, cred)
        \/ \E cred \in Creds : Quiet /\ GetAdminStats(s, cred)
        \/ \E cred \in Creds, id \in LowerHex(MaxUsers) :
                Quiet /\ DeleteUsers(s, cred, id)
        \/ \E cred \in Creds, id \in LowerHex(MaxUsers), role \in Roles :
                Quiet /\ PatchUsersRole(s, cred, id, role)
        \/ \E cred \in Creds, id \in LowerHex(MaxTuitions),
              status \in {"approved", "rejected"} :
                Quiet /\ PatchTuitionsStatus(s, cred, id, status)
        \/ GetUsersHandler(s)
        \/ PatchUsersRoleHandler(s)
        \/ DeleteUsersHandler(s)
        \/ GetTuitionsAdminAllHandler(s)
        \/ PatchTuitionsStatusHandler(s)
        \/ GetAdminStatsCount(s)
        \/ GetAdminStatsAggregate(s)

SpecAdmin == Staffed /\ [][NextAdmin]_vars

(***************************************************************************)
(* SpecSelf: the six routes with a path email, from Staffed.               *)
(***************************************************************************)
NextSelf ==
    \E cred \in Creds, email \in Emails :
        \/ \E profile \in Profiles : PatchUsersUpdate(cred, email, profile)
        \/ GetMyTuitions(cred, email)
        \/ GetApplicationsReceived(cred, email)
        \/ GetApplicationsTutor(cred, email)
        \/ GetPaymentsMyHistory(cred, email)
        \/ GetPaymentsTutorHistory(cred, email)

SpecSelf == Staffed /\ [][NextSelf]_vars

(***************************************************************************)
(* SpecApply: the application routes, from Open, one request at a time.    *)
(* SpecRace: the same requests with no client waiting for another.         *)
(***************************************************************************)
ApplicationBodies ==
    {[tuitionId |-> id, tutorEmail |-> e] :
        id \in HexInputs(MaxTuitions) \cup {Garbage}, e \in {"eve@x", "bob@x"}}

ApplyCreds == {NoHeader, Token("eve@x"), Token("bob@x")}

NextApply ==
    \/ \E s \in Slots, cred \in ApplyCreds, body \in ApplicationBodies :
            Quiet /\ PostApplicationsFind(s, cred, body)
    \/ \E s \in Slots : PostApplicationsInsert(s)
    \/ \E cred \in ApplyCreds, id \in LowerHex(MaxApplications) :
            Quiet /\ DeleteApplications(cred, id)
    \/ \E cred \in ApplyCreds, id \in LowerHex(MaxApplications) :
            Quiet /\ PatchApplicationsReject(cred, id)

SpecApply == Open /\ [][NextApply]_vars

NextRace ==
    \/ \E s \in Slots, cred \in ApplyCreds, body \in ApplicationBodies :
            PostApplicationsFind(s, cred, body)
    \/ \E s \in Slots : PostApplicationsInsert(s)
    \/ \E cred \in ApplyCreds, id \in LowerHex(MaxApplications) :
            DeleteApplications(cred, id)
    \/ \E cred \in ApplyCreds, id \in LowerHex(MaxApplications) :
            PatchApplicationsReject(cred, id)

SpecRace == Open /\ [][NextRace]_vars

(***************************************************************************)
(* SpecHire: posting, applying, rejecting and paying, from Open, one        *)
(* request at a time: eve applies, bob posts, rejects and pays.            *)
(***************************************************************************)
TuitionBodies ==
    {[studentEmail |-> "bob@x", subject |-> "math", status |-> "approved"]}

PaymentBodies ==
    {[applicationId |-> a, tuitionId |-> t, transactionId |-> x,
      email |-> "bob@x", price |-> 20] :
        a \in LowerHex(MaxApplications) \cup {Absent, Garbage},
        t \in LowerHex(MaxTuitions) \cup {Absent, Garbage},
        x \in {"tx1", NoTransaction}}

NextHire ==
    \/ \E item \in TuitionBodies : Quiet /\ PostTuitions(Token("bob@x"), item)
    \/ \E s \in Slots, id \in LowerHex(MaxTuitions) :
            Quiet /\ PostApplicationsFind(s, Token("eve@x"),
                                         [tuitionId |-> id, tutorEmail |-> "eve@x"])
    \/ \E s \in Slots : PostApplicationsInsert(s)
    \/ \E id \in LowerHex(MaxApplications) :
            Quiet /\ PatchApplicationsReject(Token("bob@x"), id)
    \/ \E s \in Slots, payment \in PaymentBodies :
            Quiet /\ PostPaymentsFind(s, Token("bob@x"), payment)
    \/ \E s \in Slots : PostPaymentsInsert(s)
    \/ \E s \in Slots : PostPaymentsApprove(s)
    \/ \E s \in Slots : PostPaymentsFill(s)

SpecHire == Open /\ [][NextHire]_vars

(***************************************************************************)
(* SpecLifecycle: every route that writes a tuition, from Open, one        *)
(* request at a time: bob posts, updates, deletes and pays, eve applies    *)
(* and updates, ann and bob ask for status changes.                        *)
(***************************************************************************)
TuitionUpdates == {[status |-> "approved"], [status |-> "filled"]}

NextLifecycle ==
    \/ \E item \in TuitionBodies : Quiet /\ PostTuitions(Token("bob@x"), item)
    \/ \E cred \in {Token("bob@x"), Token("eve@x")},
          id \in LowerHex(MaxTuitions), upd \in TuitionUpdates :
            Quiet /\ PatchTuitionsUpdate(cred, id, upd)
    \/ \E id \in LowerHex(MaxTuitions) :
            Quiet /\ DeleteTuitions(Token("bob@x"), id)
    \/ \E s \in Slots, cred \in {Token("ann@x"), Token("bob@x")},
          id \in LowerHex(MaxTuitions), status \in {"approved", "rejected"} :
            Quiet /\ PatchTuitionsStatus(s, cred, id, status)
    \/ \E s \in Slots : PatchTuitionsStatusHandler(s)
    \/ \E s \in Slots, id \in LowerHex(MaxTuitions) :
            Quiet /\ PostApplicationsFind(s, Token("eve@x"),
                                         [tuitionId |-> id, tutorEmail |-> "eve@x"])
    \/ \E s \in Slots : PostApplicationsInsert(s)
    \/ \E s \in Slots, a \in LowerHex(MaxApplications),
          t \in LowerHex(MaxTuitions) :
            Quiet /\ PostPaymentsFind(s, Token("bob@x"),
                        [applicationId |-> a, tuitionId |-> t,
                         transactionId |-> "tx1", email |-> "bob@x", price |-> 20])
    \/ \E s \in Slots : PostPaymentsInsert(s)
    \/ \E s \in Slots : PostPaymentsApprove(s)
    \/ \E s \in Slots : PostPaymentsFill(s)

SpecLifecycle == Open /\ [][NextLifecycle]_vars

(***************************************************************************)
(* SpecApprove: the routes that write an application's status, from Open:  *)
(* eve applies (with and without a status of her own in the body) when no  *)
(* request is in flight, and withdraws, and bob rejects and pays (naming   *)
(* no tuition), with no client waiting for another.                        *)
(***************************************************************************)
StatusBodies ==
    {[tuitionId |-> id, tutorEmail |-> "eve@x"] :
        id \in {Hex(1, FALSE), Hex(2, FALSE)}}
    \cup {[tuitionId |-> id, tutorEmail |-> "eve@x", status |-> "approved"] :
            id \in {Hex(1, FALSE), Hex(2, FALSE)}}

NextApprove ==
    \/ \E s \in Slots, body \in StatusBodies :
            Quiet /\ PostApplicationsFind(s, Token("eve@x"), body)
    \/ \E s \in Slots : PostApplicationsInsert(s)
    \/ \E id \in LowerHex(MaxApplications) :
            PatchApplicationsReject(Token("bob@x"), id)
    \/ \E id \in LowerHex(MaxApplications) :
            DeleteApplications(Token("eve@x"), id)
    \/ \E s \in Slots, a \in LowerHex(MaxApplications) :
            PostPaymentsFind(s, Token("bob@x"),
                        [applicationId |-> a, tuitionId |-> Absent,
                         transactionId |-> "tx1", email |-> "bob@x", price |-> 20])
    \/ \E s \in Slots : PostPaymentsInsert(s)
    \/ \E s \in Slots : PostPaymentsApprove(s)

SpecApprove == Open /\ [][NextApprove]_vars

(***************************************************************************)
(* SpecIntent: POST /create-payment-intent, from Open.                     *)
(***************************************************************************)
PriceDigits == {1, 5}
PriceExponents == {0, 1, 18, 19}

IntentBodies ==
    {[price |-> NoPrice], [price |-> Num(0, 0, 0)]}
    \cup {[price |-> Num(sign, d, e)] :
            sign \in {-1, 1}, d \in PriceDigits, e \in PriceExponents}

NextIntent ==
    \/ \E s \in Slots, cred \in {NoHeader, Token("bob@x")}, body \in IntentBodies :
            PostCreatePaymentIntent(s, cred, body)
    \/ \E s \in Slots, ok \in BOOLEAN : PostCreatePaymentIntentCreate(s, ok)

SpecIntent == Open /\ [][NextIntent]_vars

(***************************************************************************)
(* SpecGate: every route behind verifyToken, from Staffed, one request at  *)
(* a time, sent without a header, with a token jwt.verify refuses, and     *)
(* with bob's token.                                                       *)
(***************************************************************************)
GuardedRoutes ==
    SelfOnlyReads \cup AdminRoutes \cup
    {"GET /users/:email", "PATCH /users/update/:email", "POST /tuitions",
     "PATCH /tuitions/update/:id", "DELETE /tuitions/:id", "POST /applications",
     "DELETE /applications/:id", "PATCH /applications/reject/:id",
     "POST /create-payment-intent", "POST /payments"}

GateCreds == {NoHeader, BadToken, Token("bob@x")}

GatePayment ==
    [applicationId |-> Hex(1, FALSE), tuitionId |-> Hex(1, FALSE),
     transactionId |-> "tx2", email |-> "bob@x", price |-> 20]

NextGate ==
    \E cred \in GateCreds :
        \/ Quiet /\ GetUsersEmail(cred, "bob@x")
        \/ Quiet /\ PatchUsersUpdate(cred, "bob@x", [name |-> "n2", photoURL |-> "p2"])
        \/ \E item \in TuitionBodies : Quiet /\ PostTuitions(cred, item)
        \/ Quiet /\ GetMyTuitions(cred, "bob@x")
        \/ Quiet /\ GetApplicationsReceived(cred, "bob@x")
        \/ Quiet /\ GetApplicationsTutor(cred, "bob@x")
        \/ Quiet /\ GetPaymentsMyHistory(cred, "bob@x")
        \/ Quiet /\ GetPaymentsTutorHistory(cred, "bob@x")
        \/ Quiet /\ PatchTuitionsUpdate(cred, Hex(1, FALSE), [status |-> "approved"])
        \/ Quiet /\ DeleteTuitions(cred, Hex(1, FALSE))
        \/ \E s \in Slots :
                Quiet /\ PostApplicationsFind(s, cred,
                            [tuitionId |-> Hex(1, FALSE), tutorEmail |-> "bob@x"])
        \/ \E s \in Slots : PostApplicationsInsert(s)
        \/ Quiet /\ DeleteApplications(cred, Hex(1, FALSE))
        \/ Quiet /\ PatchApplicationsReject(cred, Hex(1, FALSE))
        \/ \E s \in Slots : Quiet /\ GetUsers(s, cred)
        \/ \E s \in Slots :
                Quiet /\ PatchUsersRole(s, cred, Hex(2, FALSE), "admin")
        \/ \E s \in Slots : Quiet /\ DeleteUsers(s, cred, Hex(1, FALSE))
        \/ \E s \in Slots : Quiet /\ GetTuitionsAdminAll(s, cred)
        \/ \E s \in Slots :
                Quiet /\ PatchTuitionsStatus(s, cred, Hex(1, FALSE), "approved")
        \/ \E s \in Slots : Quiet /\ GetAdminStats(s, cred)
        \/ \E s \in Slots :
                Quiet /\ PostCreatePaymentIntent(s, cred, [price |-> Num(1, 5, 0)])
        \/ \E s \in Slots, ok \in BOOLEAN : PostCreatePaymentIntentCreate(s, ok)
        \/ \E s \in Slots : Quiet /\ PostPaymentsFind(s, cred, GatePayment)
        \/ \E s \in Slots : PostPaymentsInsert(s)
        \/ \E s \in Slots : PostPaymentsApprove(s)
        \/ \E s \in Slots : PostPaymentsFill(s)

SpecGate == Staffed /\ [][NextGate]_vars

(***************************************************************************)
(* SpecListing: the public listing, from Open, one request at a time: bob  *)
(* posts and marks filled, ann approves and rejects, anyone lists.         *)
(***************************************************************************)
ListingBodies ==
    {[studentEmail |-> "bob@x", subject |-> "math", location |-> "Dhaka"],
     [studentEmail |-> "bob@x", subject |-> "physics", location |-> "Sylhet"]}

NoSearch == ""
SearchTerms == {NoSearch, "MATH", "mat", "dhaka", "physics"}

NextListing ==
    \/ \E item \in ListingBodies : Quiet /\ PostTuitions(Token("bob@x"), item)
    \/ \E id \in LowerHex(MaxTuitions) :
            Quiet /\ PatchTuitionsUpdate(Token("bob@x"), id, [status |-> "filled"])
    \/ \E s \in Slots, id \in LowerHex(MaxTuitions),
          status \in {"approved", "rejected"} :
            Quiet /\ PatchTuitionsStatus(s, Token("ann@x"), id, status)
    \/ \E s \in Slots : PatchTuitionsStatusHandler(s)
    \/ \E search \in SearchTerms : Quiet /\ GetTuitions(search)

SpecListing == Open /\ [][NextListing]_vars

(***************************************************************************)
(* SpecPay: paying for applications that are and are not stored, from      *)
(* Open, one request at a time: eve applies and withdraws, bob pays.       *)
(***************************************************************************)
NextPay ==
    \/ \E s \in Slots :
            Quiet /\ PostApplicationsFind(s, Token("eve@x"),
                        [tuitionId |-> Hex(1, FALSE), tutorEmail |-> "eve@x"])
    \/ \E s \in Slots : PostApplicationsInsert(s)
    \/ \E id \in LowerHex(MaxApplications) :
            Quiet /\ DeleteApplications(Token("eve@x"), id)
    \/ \E s \in Slots, a \in LowerHex(MaxApplications) \cup {Garbage},
          t \in {Hex(1, FALSE), Absent}, x \in {"tx1", NoTransaction} :
            Quiet /\ PostPaymentsFind(s, Token("bob@x"),
                        [applicationId |-> a, tuitionId |-> t,
                         transactionId |-> x, email |-> "bob@x", price |-> 20])
    \/ \E s \in Slots : PostPaymentsInsert(s)
    \/ \E s \in Slots : PostPaymentsApprove(s)
    \/ \E s \in Slots : PostPaymentsFill(s)

SpecPay == Open /\ [][NextPay]_vars

(***************************************************************************)
(* SpecStats: the payments collection and GET /admin-stats, from Open: eve *)
(* applies and bob pays (with a price, with another, with none) one        *)
(* request at a time, ann asks for the statistics at any time.             *)
(***************************************************************************)
StatsPayments ==
    {[applicationId |-> Hex(1, FALSE), tuitionId |-> Absent,
      transactionId |-> x, email |-> "bob@x", price |-> p] :
        x \in Transactions, p \in Prices}
    \cup {[applicationId |-> Hex(1, FALSE), tuitionId |-> Absent,
            transactionId |-> x, email |-> "bob@x"] : x \in Transactions}

NextStats ==
    \/ \E s \in Slots :
            Quiet /\ PostApplicationsFind(s, Token("eve@x"),
                        [tuitionId |-> Hex(1, FALSE), tutorEmail |-> "eve@x"])
    \/ \E s \in Slots : PostApplicationsInsert(s)
    \/ \E s \in Slots, payment \in StatsPayments :
            Quiet /\ PostPaymentsFind(s, Token("bob@x"), payment)
    \/ \E s \in Slots : PostPaymentsInsert(s)
    \/ \E s \in Slots : PostPaymentsApprove(s)
    \/ \E s \in Slots : GetAdminStats(s, Token("ann@x"))
    \/ \E s \in Slots : GetAdminStatsCount(s)
    \/ \E s \in Slots : GetAdminStatsAggregate(s)

SpecStats == Open /\ [][NextStats]_vars

(***************************************************************************)
(* SpecPosting: postings no admin approves, from Open, one request at a    *)
(* time: bob posts (with and without a status of his own in the body), bob *)
(* and eve update, ann rejects, anyone lists.                              *)
(***************************************************************************)
NextPosting ==
    \/ \E item \in TuitionBodies \cup ListingBodies :
            Quiet /\ PostTuitions(Token("bob@x"), item)
    \/ \E cred \in {Token("bob@x"), Token("eve@x")},
          id \in LowerHex(MaxTuitions), upd \in TuitionUpdates :
            Quiet /\ PatchTuitionsUpdate(cred, id, upd)
    \/ \E s \in Slots, id \in LowerHex(MaxTuitions) :
            Quiet /\ PatchTuitionsStatus(s, Token("ann@x"), id, "rejected")
    \/ \E s \in Slots : PatchTuitionsStatusHandler(s)
    \/ Quiet /\ GetTuitions(NoSearch)

SpecPosting == Open /\ [][NextPosting]_vars

(***************************************************************************)
(* SpecUsers: first logins on a fresh deployment, from Empty, with no      *)
(* client waiting for another: bob and eve send POST /users (with the role *)
(* student and with the role admin in the body) and update their profile.  *)
(***************************************************************************)
LoginBodies ==
    {SetFields(FirstLogin, [email |-> e, role |-> r]) :
        e \in {"bob@x", "eve@x"}, r \in {"student", "admin"}}

NextUsers ==
    \/ \E s \in Slots, user \in LoginBodies : PostUsersFind(s, user)
    \/ \E s \in Slots : PostUsersInsert(s)
    \/ \E e \in {"bob@x", "eve@x"} :
            PatchUsersUpdate(Token(e), e, [name |-> "n2", photoURL |-> "p2"])

SpecUsers == Empty /\ [][NextUsers]_vars

(***************************************************************************)
(* SpecAdminRace: role changes and status changes, from Staffed, with no   *)
(* client waiting for another: ann and bob ask for both.                   *)
(***************************************************************************)
NextAdminRace ==
    \/ \E s \in Slots, cred \in {Token("ann@x"), Token("bob@x")},
          id \in {Hex(1, FALSE), Hex(2, FALSE)}, role \in {"student", "admin"} :
            PatchUsersRole(s, cred, id, role)
    \/ \E s \in Slots : PatchUsersRoleHandler(s)
    \/ \E s \in Slots, cred \in {Token("ann@x"), Token("bob@x")},
          status \in {"approved", "rejected"} :
            PatchTuitionsStatus(s, cred, Hex(1, FALSE), status)
    \/ \E s \in Slots : PatchTuitionsStatusHandler(s)

SpecAdminRace == Staffed /\ [][NextAdminRace]_vars

(***************************************************************************)
(* SpecRivals: two tutors apply to bob's tuition and bob pays for either   *)
(* application, one request at a time, from Open.                          *)
(***************************************************************************)
Rivals == {"eve@x", "kim@x"}

NextRivals ==
    \/ \E s \in Slots, tutor \in Rivals :
            Quiet /\ PostApplicationsFind(s, Token("eve@x"),
                        [tuitionId |-> Hex(1, FALSE), tutorEmail |-> tutor])
    \/ \E s \in Slots : PostApplicationsInsert(s)
    \/ \E s \in Slots, a \in LowerHex(MaxApplications),
          t \in {Hex(1, FALSE), Absent} :
            Quiet /\ PostPaymentsFind(s, Token("bob@x"),
                        [applicationId |-> a, tuitionId |-> t,
                         transactionId |-> "tx1", email |-> "bob@x", price |-> 20])
    \/ \E s \in Slots : PostPaymentsInsert(s)
    \/ \E s \in Slots : PostPaymentsApprove(s)
    \/ \E s \in Slots : PostPaymentsFill(s)

SpecRivals == Open /\ [][NextRivals]_vars

(***************************************************************************)
(* SpecStatus: the four routes that write a tuition's status, one request  *)
(* at a time, from Open: bob posts and edits, ann decides, eve applies and *)
(* bob pays.                                                               *)
(***************************************************************************)
NextStatus ==
    \/ \E item \in TuitionBodies : Quiet /\ PostTuitions(Token("bob@x"), item)
    \/ \E id \in LowerHex(MaxTuitions), status \in StatusInputs :
            Quiet /\ PatchTuitionsUpdate(Token("bob@x"), id, [status |-> status])
    \/ \E s \in Slots, id \in LowerHex(MaxTuitions), status \in StatusInputs :
            Quiet /\ PatchTuitionsStatus(s, Token("ann@x"), id, status)
    \/ \E s \in Slots : PatchTuitionsStatusHandler(s)
    \/ \E s \in Slots :
            Quiet /\ PostApplicationsFind(s, Token("eve@x"),
                        [tuitionId |-> Hex(1, FALSE), tutorEmail |-> "eve@x"])
    \/ \E s \in Slots : PostApplicationsInsert(s)
    \/ \E s \in Slots :
            Quiet /\ PostPaymentsFind(s, Token("bob@x"),
                        [applicationId |-> Hex(1, FALSE), tuitionId |-> Hex(1, FALSE),
                         transactionId |-> "tx1", email |-> "bob@x", price |-> 20])
    \/ \E s \in Slots : PostPaymentsInsert(s)
    \/ \E s \in Slots : PostPaymentsApprove(s)
    \/ \E s \in Slots : PostPaymentsFill(s)

SpecStatus == Open /\ [][NextStatus]_vars

(***************************************************************************)
(* Properties.                                                             *)
(***************************************************************************)
\* The role the users collection holds for an email when a step begins.
RoleOnFile(email) ==
    IF \E d \in users : d.email = email
    THEN (CHOOSE d \in users :
            d.email = email /\ \A e \in users : e.email = email => d._id <= e._id).role
    ELSE NoRole

\* C1: a request to an admin-only route by an authenticated caller whose
\* stored role is not "admin" is answered 403 and performs nothing.  In
\* every step: a request that is let through to the handler of an admin
\* route comes from a caller stored as admin; and an admin route's request
\* answered without having been let through is answered 401, or 403 to a
\* caller not stored as admin, with no document in the answer and no
\* collection changed.
C1_AdminOnly ==
    [][/\ \A s \in Slots :
            (reqs[s].pc = "idle" /\ reqs'[s].pc # "idle"
                /\ reqs'[s].route \in AdminRoutes)
            => RoleOnFile(reqs'[s].email) = "admin"
       /\ (last' # last /\ last'.route \in AdminRoutes
                /\ \A s \in Slots : reqs[s].pc = "idle")
            => /\ last'.status \in {401, 403}
               /\ last'.status = 401 <=> last'.email = NoEmail
               /\ last'.status = 403 => RoleOnFile(last'.email) # "admin"
               /\ last'.resp.docs = {}
               /\ db' = db]_vars

\* C1's case: a caller stored as tutor asked for a status change of a stored
\* tuition and was refused 403.
C1_Witness ==
    /\ last.route = "PATCH /tuitions/status/:id"
    /\ last.status = 403
    /\ RoleOnFile(last.email) = "tutor"
    /\ \E t \in tuitions : t._id = ObjectId(last.param.id)

\* C2: a self-only route asked with a verified token whose email differs
\* from the path email answers 403, with no document in the answer and no
\* collection changed by the request.
C2_SelfOnly ==
    [][(last'.route \in SelfOnlyReads \cup {"PATCH /users/update/:email"}
            /\ last'.email # NoEmail
            /\ last'.email # last'.param.email)
        => /\ last'.status = 403
           /\ last'.resp.docs = {}
           /\ last' # last => db' = db]_vars

\* C2's case: bob asked for the earnings of a tutor who has some and was
\* refused.
C2_Witness ==
    /\ last.route = "GET /payments/tutor-history/:email"
    /\ last.status = 403
    /\ last.email = "bob@x"
    /\ TutorPayments(last.param.email) # {}

\* The stored applications of the pair a POST /applications body names.
PairOf(apps, body) ==
    {a \in apps : a.tuitionId = body.tuitionId.n /\ a.tutorEmail = body.tutorEmail}

\* C3: requests one at a time.  A POST /applications naming a pair that is
\* already stored is answered 200 with a null insertedId and stores
\* nothing; one naming a new pair is answered 200 with the identifier of
\* the record it stored; either way exactly one record of the pair is
\* stored afterwards.
C3_SecondApplication ==
    [][(last' # last /\ last'.route = "POST /applications"
            /\ last'.email # NoEmail /\ last'.body.tuitionId.kind = "hex")
        => /\ Cardinality(PairOf(applications', last'.body)) = 1
           /\ last'.status = 200
           /\ last'.resp.kind = "insertResult"
           /\ PairOf(applications, last'.body) # {}
                => last'.resp.n = 0 /\ applications' = applications
           /\ PairOf(applications, last'.body) = {}
                => \E a \in PairOf(applications', last'.body) :
                        a._id = last'.resp.n]_vars

\* C3's case: the second call, spelling the tuitionId in upper case, was
\* answered 200 with a null insertedId while one record of the pair is stored.
C3_Witness ==
    /\ last.route = "POST /applications"
    /\ last.status = 200
    /\ last.resp.kind = "insertResult" /\ last.resp.n = 0
    /\ last.body.tuitionId.upper
    /\ Cardinality(PairOf(applications, last.body)) = 1

\* C4: in every reachable state the applications collection holds at most
\* one record per (tuitionId, tutorEmail) pair.
C4_OnePerPair ==
    \A a, b \in applications :
        (a.tuitionId = b.tuitionId /\ a.tutorEmail = b.tutorEmail) => a._id = b._id

\* The step in which the POST /payments request of slot s is answered.
PaymentAnswered(s) ==
    /\ reqs[s].route = "POST /payments"
    /\ reqs'[s].pc = "idle"

StatusIn(coll, id) ==
    IF \E d \in coll : d._id = id
    THEN (CHOOSE d \in coll : d._id = id).status
    ELSE "missing"

\* C5: when POST /payments answers 200 for an application that was pending
\* and whose parent tuition was approved, the application is approved and
\* the parent tuition is filled at that moment.
C5_PaidMeansHired ==
    [][\A s \in Slots :
        (/\ PaymentAnswered(s)
         /\ last'.status = 200
         /\ reqs[s].loc.application.status = "pending"
         /\ StatusIn(tuitions, reqs[s].loc.application.tuitionId) = "approved")
        => /\ StatusIn(applications', reqs[s].loc.application._id) = "approved"
           /\ StatusIn(tuitions', reqs[s].loc.application.tuitionId) = "filled"]_vars

\* C6: the tuition a POST /payments changes is the parent tuition of the
\* paid application, and the hiredTutorEmail written is the application's
\* tutorEmail.
C6_ParentIsFilled ==
    [][\A s \in Slots :
        (reqs[s].route = "POST /payments" /\ reqs'[s].pc # reqs[s].pc)
        => \A t \in tuitions, u \in tuitions' :
            (u._id = t._id /\ u # t)
            => /\ u._id = reqs[s].loc.application.tuitionId
               /\ u.status = "filled"
               /\ u.hiredTutorEmail = reqs[s].loc.application.tutorEmail]_vars

\* C7: the payments collection holds at most one record per applicationId.
C7_OncePerApplication ==
    \A p, q \in payments :
        ObjectId(p.applicationId) = ObjectId(q.applicationId) => p._id = q._id

\* C8: a tuition whose status is rejected keeps that status for as long as
\* it is stored.
C8_RejectedTuitionStays ==
    [][\A t \in tuitions, u \in tuitions' :
        (u._id = t._id /\ t.status = "rejected") => u.status = "rejected"]_vars

\* C9: a tuition's status changes only from pending to approved or rejected
\* in the handler of PATCH /tuitions/status/:id, and from approved to filled
\* in POST /payments.
C9_StatusTransitions ==
    [][\A t \in tuitions, u \in tuitions' :
        (u._id = t._id /\ u.status # t.status)
        => \/ /\ t.status = "pending"
              /\ u.status \in {"approved", "rejected"}
              /\ \E s \in Slots : /\ At(s, "PATCH /tuitions/status/:id", "handler")
                                  /\ reqs'[s].pc = "idle"
           \/ /\ t.status = "approved"
              /\ u.status = "filled"
              /\ \E s \in Slots : /\ At(s, "POST /payments", "fill")
                                  /\ reqs'[s].pc = "idle"]_vars

\* C10: an application whose status is rejected keeps that status for as
\* long as it is stored.
C10_RejectedApplicationStays ==
    [][\A a \in applications, b \in applications' :
        (b._id = a._id /\ a.status = "rejected") => b.status = "rejected"]_vars

\* C11: after every step, every stored application whose status is approved
\* has a stored payment naming it as applicationId, and every application a
\* step has just stored has status pending, whatever status the body sent.
C11_ApprovedMeansPaid ==
    [][/\ \A b \in applications' :
            b.status = "approved"
            => \E p \in payments' : ObjectId(p.applicationId) = b._id
       /\ \A b \in applications' :
            (\A a \in applications : a._id # b._id) => b.status = "pending"]_vars

\* C11's case: an application sent with status approved in its body was
\* stored (as pending), and another application is approved.
C11_Witness ==
    /\ last.route = "POST /applications"
    /\ last.status = 200
    /\ "status" \in DOMAIN last.body
    /\ \E b \in applications : b._id = last.resp.n /\ b.status = "pending"
    /\ \E a \in applications : a.status = "approved"

\* The studentEmail of the stored tuition of an identifier, if there is one.
OwnerOf(tuitionId) ==
    IF \E t \in tuitions : t._id = tuitionId
    THEN (CHOOSE t \in tuitions : t._id = tuitionId).studentEmail
    ELSE NoEmail

\* C12: an application becomes rejected only in a step that answers a
\* PATCH /applications/reject/:id whose caller is the studentEmail of the
\* tuition the application references.
C12_OwnerRejects ==
    [][\A a \in applications, b \in applications' :
        (b._id = a._id /\ a.status # "rejected" /\ b.status = "rejected")
        => /\ last'.route = "PATCH /applications/reject/:id"
           /\ last'.email = OwnerOf(a.tuitionId)]_vars

\* C13: a stored tuition is changed by PATCH /tuitions/update/:id or removed
\* by DELETE /tuitions/:id only when the caller is its studentEmail.
C13_OwnerWrites ==
    [][\A t \in tuitions :
        (/\ t \notin tuitions'
         /\ last'.route \in {"PATCH /tuitions/update/:id", "DELETE /tuitions/:id"})
        => last'.email = t.studentEmail]_vars

\* C14: a stored application is removed only by a caller who is its
\* tutorEmail or whose stored role is admin.
C14_TutorOrAdminDeletes ==
    [][\A a \in applications :
        (\A b \in applications' : b._id # a._id)
        => /\ last'.route = "DELETE /applications/:id"
           /\ \/ last'.email = a.tutorEmail
              \/ RoleOnFile(last'.email) = "admin"]_vars

\* C15: an application is stored only for a caller whose stored role is
\* tutor; a POST /applications by any other authenticated caller is
\* answered 403 and stores nothing.
C15_TutorsApply ==
    [][/\ \A b \in applications' :
            (\A a \in applications : a._id # b._id)
            => /\ last'.route = "POST /applications"
               /\ RoleOnFile(last'.email) = "tutor"
       /\ (/\ last' # last
           /\ last'.route = "POST /applications"
           /\ last'.email # NoEmail
           /\ RoleOnFile(last'.email) # "tutor")
          => last'.status = 403 /\ applications' = applications]_vars

\* C19: an authenticated POST /create-payment-intent whose price is absent,
\* zero or negative is answered 400 and the payment processor is not called;
\* with a positive integer price the processor is asked for an intent of
\* exactly price * 100.
C19_IntentAmount ==
    [][/\ \A s \in Slots :
            (reqs[s].pc = "idle" /\ reqs'[s].route = "POST /create-payment-intent")
            => LET price == reqs'[s].body.price
               IN /\ price.kind = "number" /\ price.sign = 1
                  /\ reqs'[s].pc = "create"
                  /\ reqs'[s].loc.amount = Num(1, price.digit, price.exp + 2)
       /\ (/\ last' # last /\ reqs' = reqs
           /\ last'.route = "POST /create-payment-intent"
           /\ last'.email # NoEmail)
          => /\ last'.status = 400
             /\ \/ last'.body.price.kind = "absent"
                \/ last'.body.price.sign <= 0]_vars

\* C16: on every route behind verifyToken, a request without a header or
\* with a token that fails verification has no decoded identity; it is
\* answered 401 with the message of verifyToken, no document is sent, no
\* collection changes, and no handler is suspended on its behalf.
C16_Unauthenticated ==
    [][/\ (/\ last' # last
           /\ last'.route \in GuardedRoutes
           /\ last'.email = NoEmail)
          => /\ last'.status = 401
             /\ last'.resp = Message("unauthorized access")
             /\ db' = db
             /\ reqs' = reqs
       /\ \A s \in Slots :
            (reqs'[s].pc # "idle" /\ reqs'[s].route \in GuardedRoutes)
            => reqs'[s].email # NoEmail]_vars

\* C16's case: a POST /payments naming a stored application that has no
\* payment of that transaction was answered 401.
C16_Witness ==
    /\ last.route = "POST /payments"
    /\ last.status = 401
    /\ \E a \in applications : a._id = ObjectId(last.body.applicationId)
    /\ \A p \in payments : p.transactionId # last.body.transactionId

\* C17: a request to an admin-only route is authorized against the role the
\* users collection holds when the request starts, whatever the role was
\* before: it is passed on to its handler only if that role is admin, and
\* an authenticated request answered on arrival is answered 403 and only
\* if that role is not admin.
C17_FreshRole ==
    [][/\ \A s \in Slots :
            (/\ reqs[s].pc = "idle"
             /\ reqs'[s].pc = "handler"
             /\ reqs'[s].route \in AdminRoutes)
            => RoleOnFile(reqs'[s].email) = "admin"
       /\ (/\ Quiet
           /\ last' # last
           /\ last'.route \in AdminRoutes
           /\ last'.email # NoEmail)
          => /\ last'.status = 403
             /\ RoleOnFile(last'.email) # "admin"]_vars

\* C17's case: ann, the admin at the start, has been refused 403 on an
\* admin-only route, and a request of bob, a student at the start, has been
\* passed on to the handler of one.
C17_Witness ==
    /\ last.route \in AdminRoutes
    /\ last.status = 403
    /\ last.email = "ann@x"
    /\ \E s \in Slots :
        /\ reqs[s].pc = "handler"
        /\ reqs[s].route \in AdminRoutes
        /\ reqs[s].email = "bob@x"

\* C18: an authenticated POST /payments with a transactionId and an
\* applicationId that is the identifier of no stored application is answered
\* 404 and changes no collection; the handler goes on to insert a payment
\* only when the application is stored.
C18_NoApplicationNoPayment ==
    [][/\ (/\ Quiet
           /\ last' # last
           /\ last'.route = "POST /payments"
           /\ last'.email # NoEmail
           /\ last'.body.applicationId.kind = "hex"
           /\ last'.body.transactionId # NoTransaction
           /\ \A a \in applications : a._id # last'.body.applicationId.n)
          => /\ last'.status = 404
             /\ db' = db
             /\ reqs' = reqs
       /\ \A s \in Slots :
            (/\ reqs[s].pc = "idle"
             /\ reqs'[s].route = "POST /payments"
             /\ reqs'[s].pc = "insert")
            => \E a \in applications : a._id = reqs'[s].body.applicationId.n]_vars

\* C18's case: a POST /payments naming application 2, which is not stored,
\* and a stored tuition was answered 404 while application 1 is stored and
\* pending, no payment is stored and no tuition is filled.
C18_Witness ==
    /\ last.route = "POST /payments"
    /\ last.status = 404
    /\ \A a \in applications : a._id # last.body.applicationId.n
    /\ \E a \in applications : a.status = "pending"
    /\ \E t \in tuitions : t._id = ObjectId(last.body.tuitionId)
    /\ \A t \in tuitions : t.status # "filled"
    /\ payments = {}

\* The words of the listing's requests and postings in lower case, and the
\* pairs of them of which the first is a proper part of the second.
Lower(str) ==
    CASE str = "MATH" -> "math"
      [] str = "Dhaka" -> "dhaka"
      [] str = "Sylhet" -> "sylhet"
      [] OTHER -> str

ProperParts == {<<"mat", "math">>}

\* text contains term, letter case ignored.
Contains(text, term) ==
    \/ term = NoSearch
    \/ Lower(term) = Lower(text)
    \/ <<Lower(term), Lower(text)>> \in ProperParts

\* C20: every posting an answer of GET /tuitions holds has status approved
\* and, when the request has a search term, a subject or a location that
\* contains the term, letter case ignored.
C20_PublicListing ==
    last.route = "GET /tuitions"
    => \A t \in last.resp.docs :
        /\ t.status = "approved"
        /\ \/ Contains(t.subject, last.param.search)
           \/ "location" \in DOMAIN t /\ Contains(t.location, last.param.search)

\* The sum of the prices of the documents of S that have one.
RECURSIVE TotalOf(_)
TotalOf(S) ==
    IF S = {} THEN 0
    ELSE LET d == CHOOSE x \in S : \A y \in S : x._id >= y._id
         IN (IF "price" \in DOMAIN d THEN d.price ELSE 0) + TotalOf(S \ {d})

\* C21: the revenue in an answer of GET /admin-stats is the sum of the
\* prices of the payments stored when the answer is sent, and 0 when no
\* payment is stored.
C21_Revenue ==
    [][(\E s \in Slots : At(s, "GET /admin-stats", "aggregate") /\ reqs'[s].pc = "idle")
        => /\ last'.route = "GET /admin-stats"
           /\ last'.status = 200
           /\ \A d \in last'.resp.docs : d.revenue = TotalOf(payments)
           /\ last'.resp.docs # {}
           /\ payments = {} => \A d \in last'.resp.docs : d.revenue = 0]_vars

\* C21's case: the statistics were answered with a revenue of 55 while two
\* payments, of 20 and of 35, are stored.
C21_Witness ==
    /\ last.route = "GET /admin-stats"
    /\ last.status = 200
    /\ \E d \in last.resp.docs : d.revenue = 55
    /\ \E p, q \in payments :
        /\ "price" \in DOMAIN p /\ p.price = 20
        /\ "price" \in DOMAIN q /\ q.price = 35
    /\ Cardinality(payments) = 2

\* C22: a tuition a step has just stored has status pending, whatever
\* status the body sent; and where no admin approves a posting, an answer of
\* GET /tuitions holds no posting but the one approved from the start
\* (tuition 1).
C22_PostedIsPending ==
    [][/\ \A u \in tuitions' :
            (\A t \in tuitions : t._id # u._id) => u.status = "pending"
       /\ last'.route = "GET /tuitions"
            => \A d \in last'.resp.docs : d._id = 1]_vars

\* C23: after every step, interleavings of POST /users included, the users
\* collection holds at most one record per email; and a POST /users that
\* arrives with no request in flight for an email that is stored is
\* answered 200 with a null insertedId and changes no record.
C23_OnePerEmail ==
    [][/\ \A u, v \in users' : u.email = v.email => u._id = v._id
       /\ (/\ Quiet
           /\ last' # last
           /\ last'.route = "POST /users"
           /\ \E u \in users : u.email = last'.body.email)
          => /\ last'.status = 200
             /\ last'.resp.kind = "insertResult" /\ last'.resp.n = 0
             /\ users' = users]_vars

\* C28: a user record gets the role admin only in the handler of
\* PATCH /users/role/:id, which runs for admins only: a record a step has
\* just stored does not have the role admin, and a stored record's role
\* becomes admin in no other step.
C28_AdminMakesAdmin ==
    [][\A u \in users' :
        (u.role = "admin" /\ \A t \in users : t._id = u._id => t.role # "admin")
        => \E s \in Slots :
            /\ At(s, "PATCH /users/role/:id", "handler")
            /\ reqs'[s].pc = "idle"]_vars

\* C24: the writes of POST /payments are separate steps: the step that
\* inserts the payment changes no application and no tuition and leaves the
\* request suspended before its next write, and the step that updates the
\* application changes no tuition.
C24_SeparateWrites ==
    [][\A s \in Slots :
        /\ (At(s, "POST /payments", "insert") /\ reqs'[s] # reqs[s])
            => /\ payments' # payments
               /\ applications' = applications
               /\ tuitions' = tuitions
               /\ reqs'[s].pc = "approve"
        /\ (At(s, "POST /payments", "approve") /\ reqs'[s] # reqs[s])
            => /\ payments' = payments
               /\ tuitions' = tuitions]_vars

\* C24's case: a payment of an application is stored while the application
\* is still pending and its tuition is still approved.
C24_Witness ==
    \E p \in payments, a \in applications, t \in tuitions :
        /\ ObjectId(p.applicationId) = a._id
        /\ a.status = "pending"
        /\ t._id = a.tuitionId
        /\ t.status = "approved"

\* C25: the handler of an admin-only write runs after verifyAdmin as a step
\* of its own and does not read the role again: whatever the users
\* collection holds by then, PATCH /tuitions/status/:id is answered 200 and
\* the tuition it names has the status of the body, and PATCH /users/role/:id
\* is answered 200 and the user it names has the role of the body.
C25_WriteAfterGate ==
    [][\A s \in Slots :
        /\ (At(s, "PATCH /tuitions/status/:id", "handler") /\ reqs'[s].pc = "idle")
            => /\ last'.status = 200
               /\ \A t \in tuitions :
                    t._id = ObjectId(reqs[s].param.id)
                    => \E u \in tuitions' :
                        u._id = t._id /\ u.status = reqs[s].body.status
        /\ (At(s, "PATCH /users/role/:id", "handler") /\ reqs'[s].pc = "idle")
            => /\ last'.status = 200
               /\ \A t \in users :
                    t._id = ObjectId(reqs[s].param.id)
                    => \E u \in users' :
                        u._id = t._id /\ u.role = reqs[s].body.role]_vars

\* C25's case: the last answer is the 200 of a status change that matched
\* a tuition, the tuition has the status asked for, and the caller is
\* stored as a student: the role was changed after verifyAdmin let the
\* request pass and before its write.
C25_Witness ==
    /\ last.route = "PATCH /tuitions/status/:id"
    /\ last.status = 200
    /\ last.resp.n = 1
    /\ RoleOnFile(last.email) = "student"
    /\ \E t \in tuitions :
        t._id = ObjectId(last.param.id) /\ t.status = last.body.status

\* The applications a payment for the application `paid` leaves alone: the
\* collection keeps its ids, and every application other than the paid one
\* is the same document after the step.
OthersKept(paid) ==
    /\ {a._id : a \in applications'} = {a._id : a \in applications}
    /\ \A a \in applications : a._id # ObjectId(paid) => a \in applications'

\* C26: no step of a POST /payments request changes an application other
\* than the one its body names: the arrival and its 401/404 answers, the
\* insert of the payment, the update of the application and the update of
\* the tuition leave every other application, the other pending ones of
\* the same tuition included, as it was.
C26_OnlyThePaidApplication ==
    [][/\ \A s \in Slots :
            (reqs[s].route = "POST /payments" /\ reqs'[s] # reqs[s])
                => OthersKept(reqs[s].body.applicationId)
       /\ \A s \in Slots :
            (reqs[s].pc = "idle" /\ reqs'[s].route = "POST /payments")
                => applications' = applications
       /\ (last' # last /\ last'.route = "POST /payments")
            => OthersKept(last'.body.applicationId)]_vars

\* C26's case: a payment was answered 200, the application it names is
\* approved, and another application for the same tuition is still pending.
C26_Witness ==
    /\ last.route = "POST /payments"
    /\ last.status = 200
    /\ \E a \in applications, b \in applications :
        /\ a._id = ObjectId(last.body.applicationId)
        /\ a.status = "approved"
        /\ b._id # a._id
        /\ b.tuitionId = a.tuitionId
        /\ b.status = "pending"

\* C27: every stored tuition has a status among pending, approved, rejected
\* and filled, whatever POST /tuitions, PATCH /tuitions/status/:id,
\* PATCH /tuitions/update/:id and POST /payments were asked to do.
C27_KnownStatuses == \A t \in tuitions : t.status \in TuitionStatuses

====
